---------------------------- MODULE Spec2Model ----------------------------
(***************************************************************************)
(* Model of the formValidator repository: the validator catalog            *)
(* (src/src/lib/validators.js) and the useForm controller                  *)
(* (src/unnamed/part_002).                                                 *)
(*                                                                         *)
(* The controller's React state (values, errors, touched, isSubmitting) is *)
(* the model's state.  Every state write of the hook is either a constant  *)
(* or a functional updater (prev => ...), and React applies queued updates *)
(* in order, so a write is applied to the state where the code issues it.  *)
(* A handler reads `values`, `errors` and `touched` from the closure of    *)
(* the render it was created in; an invocation is made on the handlers of  *)
(* the latest render, so what it reads is the state at its start, and it   *)
(* keeps reading that snapshot after every await.                          *)
(*                                                                         *)
(* An async handler suspends at each `await`; between two awaits it runs   *)
(* to completion.  An in-flight invocation is a record in `calls`.         *)
(***************************************************************************)
EXTENDS Integers, Sequences, FiniteSets, TLC

(***************************************************************************)
(* Bounds of the model.                                                    *)
(***************************************************************************)
\* number of handler invocations that may be suspended at the same time
MaxInFlight == 1
\* longest rule list of a schema entry explored by SpecValidate
MaxRules == 2

(***************************************************************************)
(* JavaScript values.  A value is a record of one shape so that any two    *)
(* values can be compared; strings are sequences of characters.            *)
(***************************************************************************)
undefined == [t |-> "undefined", s |-> <<>>, b |-> FALSE, n |-> 0]
null == [t |-> "null", s |-> <<>>, b |-> FALSE, n |-> 0]
Str(cs) == [t |-> "string", s |-> cs, b |-> FALSE, n |-> 0]
Bool(x) == [t |-> "boolean", s |-> <<>>, b |-> x, n |-> 0]
Num(k) == [t |-> "number", s |-> <<>>, b |-> FALSE, n |-> k]

\* ToBoolean: undefined, null, "", false and 0 are falsy
Truthy(v) ==
  CASE v.t = "string" -> v.s # <<>>
    [] v.t = "boolean" -> v.b
    [] v.t = "number" -> v.n # 0
    [] OTHER -> FALSE

\* the digits of a natural number, as characters
RECURSIVE Digits(_)
Digits(k) ==
  IF k < 10 THEN <<ToString(k)>> ELSE Digits(k \div 10) \o <<ToString(k % 10)>>

\* ToString, as RegExp.prototype.test applies it to its argument
JsToString(v) ==
  CASE v.t = "string" -> v.s
    [] v.t = "boolean" -> IF v.b THEN <<"t", "r", "u", "e">>
                                 ELSE <<"f", "a", "l", "s", "e">>
    [] v.t = "number" -> IF v.n < 0 THEN <<"-">> \o Digits(0 - v.n) ELSE Digits(v.n)
    [] v.t = "null" -> <<"n", "u", "l", "l">>
    [] OTHER -> <<"u", "n", "d", "e", "f", "i", "n", "e", "d">>

\* value.length: the length of a string; undefined on a boolean or a number
JsLength(v) == IF v.t = "string" THEN Num(Len(v.s)) ELSE undefined

(***************************************************************************)
(* Error messages are strings; noError is the `null` a rule or             *)
(* validateField returns, noMessage an omitted message argument.           *)
(***************************************************************************)
noError == "<null>"
noMessage == "<undefined>"
\* the completion of a rule call that throws instead of returning
raised == "<throw>"
ErrTruthy(e) == e # noError /\ e # noMessage /\ e # ""

(***************************************************************************)
(* Objects used as maps (values, errors, touched, the schema): functions   *)
(* whose domain is the set of keys present.                                *)
(***************************************************************************)
EmptyObj == [k \in {} |-> undefined]
Has(m, k) == k \in DOMAIN m
Put(m, k, v) == [x \in DOMAIN m \cup {k} |-> IF x = k THEN v ELSE m[x]]
Del(m, k) == [x \in DOMAIN m \ {k} |-> m[x]]
Spread(a, b) == [x \in DOMAIN a \cup DOMAIN b |-> IF x \in DOMAIN b THEN b[x] ELSE a[x]]
\* obj[key] on an object of values
Get(m, k) == IF k \in DOMAIN m THEN m[k] ELSE undefined
\* errors[key]: the message, or undefined (noMessage) when there is no entry
GetErr(m, k) == IF k \in DOMAIN m THEN m[k] ELSE noMessage
\* touched[key] as a condition
GetFlag(m, k) == IF k \in DOMAIN m THEN m[k] ELSE FALSE


(***************************************************************************)
(* Validator catalog.  A constructor returns a closure over its            *)
(* parameters; the closure is modelled as a record of the captured         *)
(* parameters, and <name>Rule is the closure's body.                       *)
(***************************************************************************)
Closure(kind, message, length, fieldName) ==
  [kind |-> kind, message |-> message, length |-> length, fieldName |-> fieldName]

\* a default parameter value applies when the argument is undefined
Default(message, dflt) == IF message = noMessage THEN dflt ELSE message
\* message || dflt
OrElse(message, dflt) == IF ErrTruthy(message) THEN message ELSE dflt

required(message) ==
  Closure("required", Default(message, "This field is required"), 0, "")
email(message) ==
  Closure("email", Default(message, "Please enter a valid email"), 0, "")
minLength(length, message) == Closure("minLength", message, length, "")
maxLength(length, message) == Closure("maxLength", message, length, "")
match(fieldName, message) ==
  Closure("match", Default(message, "Values do not match"), 0, fieldName)

\* (a required that fails on every falsy value)
requiredRuleFalsy(c, value) == IF ~Truthy(value) THEN c.message ELSE noError

requiredRule(c, value) ==
  IF value = undefined \/ value = null \/ value = Str(<<>>) THEN c.message ELSE noError

\* characters matched by \s, and the class [^\s@]
Whitespace == {" "}
NotSpaceNorAt(ch) == ch \notin Whitespace /\ ch # "@"

\* /^[^\s@]+@[^\s@]+\.[^\s@]+$/.test(s)
emailRegexTest(s) ==
  \E i \in 1..Len(s) : \E j \in 1..Len(s) :
    /\ 1 < i /\ i + 1 < j /\ j < Len(s)
    /\ s[i] = "@" /\ s[j] = "."
    /\ \A k \in (1..Len(s)) \ {i} : NotSpaceNorAt(s[k])

emailRule(c, value) ==
  IF Truthy(value) /\ ~emailRegexTest(JsToString(value)) THEN c.message ELSE noError

\* a < b on the value's length: false when the length is undefined
minLengthRule(c, value) ==
  IF Truthy(value) /\ JsLength(value).t = "number" /\ JsLength(value).n < c.length
  THEN OrElse(c.message, "Must be at least " \o ToString(c.length) \o " characters")
  ELSE noError

maxLengthRule(c, value) ==
  IF Truthy(value) /\ JsLength(value).t = "number" /\ JsLength(value).n > c.length
  THEN OrElse(c.message, "Must be at most " \o ToString(c.length) \o " characters")
  ELSE noError

\* (a match that compares with == on the values' strings)
matchRuleLoose(c, value, allValues) ==
  IF JsToString(value) # JsToString(Get(allValues, c.fieldName)) THEN c.message ELSE noError

matchRule(c, value, allValues) ==
  IF value # Get(allValues, c.fieldName) THEN c.message ELSE noError

\* The constructors below capture a parameter of their own besides the
\* message; the closure record is extended with it.
differentFrom(fieldName, message) ==
  Closure("differentFrom", Default(message, "Must be different"), 0, fieldName)

differentFromRule(c, value, allValues) ==
  IF value = Get(allValues, c.fieldName) THEN c.message ELSE noError

requiredIf(fieldName, expectedValue, message) ==
  Closure("requiredIf", Default(message, "This field is required"), 0, fieldName)
    @@ [expectedValue |-> expectedValue]

\* (a requiredIf that tests emptiness as required does)
requiredIfRuleEmptyOnly(c, value, allValues) ==
  IF Get(allValues, c.fieldName) = c.expectedValue
     /\ (value = undefined \/ value = null \/ value = Str(<<>>))
  THEN c.message ELSE noError

requiredIfRule(c, value, allValues) ==
  IF Get(allValues, c.fieldName) = c.expectedValue /\ ~Truthy(value)
  THEN c.message ELSE noError

\* the option lists are arrays; an omitted list is the default []
dropdown(options, message) ==
  Closure("dropdown", Default(message, "Please select a valid option"), 0, "")
    @@ [options |-> options]

DefaultOption == Str(<<"d", "e", "f", "a", "u", "l", "t">>)

\* options.includes(value)
Includes(options, value) == \E k \in 1..Len(options) : options[k] = value

dropdownRule(c, value) ==
  IF value = undefined \/ value = null \/ value = Str(<<>>) \/ value = DefaultOption
  THEN "Please select an option"
  ELSE IF Len(c.options) > 0 /\ ~Includes(c.options, value) THEN c.message ELSE noError

\* Number(value), on the integers: NaN or an integer
NaN == [nan |-> TRUE, n |-> 0]
Finite(k) == [nan |-> FALSE, n |-> k]

DigitChars == <<"0", "1", "2", "3", "4", "5", "6", "7", "8", "9">>
IsDigit(ch) == \E k \in 1..10 : DigitChars[k] = ch
DigitValue(ch) == (CHOOSE k \in 1..10 : DigitChars[k] = ch) - 1

\* the string without its leading and trailing white space
RECURSIVE Trim(_)
Trim(s) ==
  IF s = <<>> THEN s
  ELSE IF Head(s) \in Whitespace THEN Trim(Tail(s))
  ELSE IF s[Len(s)] \in Whitespace THEN Trim(SubSeq(s, 1, Len(s) - 1))
  ELSE s

RECURSIVE DigitsValue(_)
DigitsValue(s) ==
  IF s = <<>> THEN 0
  ELSE 10 * DigitsValue(SubSeq(s, 1, Len(s) - 1)) + DigitValue(s[Len(s)])

\* StringToNumber: white space trimmed, "" is 0, a signed decimal integer is its
\* value, anything else NaN (the inputs explored hold no ".", "e", "x" or "I")
StringToNumber(s) ==
  LET t == Trim(s)
      signed == t # <<>> /\ Head(t) \in {"+", "-"}
      body == IF signed THEN Tail(t) ELSE t
  IN IF t = <<>> THEN Finite(0)
     ELSE IF body # <<>> /\ \A k \in 1..Len(body) : IsDigit(body[k])
          THEN Finite(IF Head(t) = "-" THEN 0 - DigitsValue(body) ELSE DigitsValue(body))
          ELSE NaN

JsNumber(v) ==
  CASE v.t = "string" -> StringToNumber(v.s)
    [] v.t = "boolean" -> Finite(IF v.b THEN 1 ELSE 0)
    [] v.t = "number" -> Finite(v.n)
    [] v.t = "null" -> Finite(0)
    [] OTHER -> NaN

number(message) == Closure("number", Default(message, "Must be a number"), 0, "")

numberRule(c, value) ==
  IF Truthy(value) /\ JsNumber(value).nan THEN c.message ELSE noError

minValueAllowed(min, message) ==
  Closure("minValueAllowed", message, 0, "") @@ [min |-> min]
maxValueAllowed(max, message) ==
  Closure("maxValueAllowed", message, 0, "") @@ [max |-> max]

minValueAllowedRule(c, value) ==
  IF value # Str(<<>>) /\ ~JsNumber(value).nan /\ JsNumber(value).n < c.min
  THEN OrElse(c.message, "Must be at least " \o ToString(c.min))
  ELSE noError

maxValueAllowedRule(c, value) ==
  IF value # Str(<<>>) /\ ~JsNumber(value).nan /\ JsNumber(value).n > c.max
  THEN OrElse(c.message, "Must be at most " \o ToString(c.max))
  ELSE noError

boolean(message) == Closure("boolean", Default(message, "Must be true or false"), 0, "")

booleanRule(c, value) == IF value.t # "boolean" THEN c.message ELSE noError

\* A caller-supplied predicate, as the README's
\*   async (value) => !(await checkUsernameExists(value)):
\* `taken` holds the values for which it answers false.
ValidatorFn(async, taken) == [async |-> async, taken |-> taken]

\* the predicate's answer: its return value, or what its promise resolves to
Answer(validatorFn, value, allValues) == Bool(value \notin validatorFn.taken)

\* const isValid = validatorFn(value, allValues); isValid ? ... : ...
\* An async function returns a promise, and an object is truthy.
IsValidTruthy(validatorFn, value, allValues) ==
  IF validatorFn.async THEN TRUE ELSE Truthy(Answer(validatorFn, value, allValues))

custom(validatorFn, message) ==
  Closure("custom", Default(message, "Invalid value"), 0, "")
    @@ [validatorFn |-> validatorFn]

customRule(c, value, allValues) ==
  IF IsValidTruthy(c.validatorFn, value, allValues) THEN noError ELSE c.message

\* The regex argument of pattern: a RegExp, by the strings it matches, or a
\* value without a test method (a pattern given as a string).
RegExp(matching) == [callable |-> TRUE, matching |-> matching]
NotARegExp == [callable |-> FALSE, matching |-> {}]

pattern(regex, message) ==
  Closure("pattern", Default(message, "Invalid format"), 0, "") @@ [regex |-> regex]

\* if (value && !regex.test(value)) return message; return null;
\* regex.test is evaluated for a truthy value only; without a test method the
\* call throws a TypeError
patternRule(c, value) ==
  IF ~Truthy(value) THEN noError
  ELSE IF ~c.regex.callable THEN raised
  ELSE IF JsToString(value) \notin c.regex.matching THEN c.message
  ELSE noError

\* rule(value, allValues): the call of a catalog closure
CallRule(c, value, allValues) ==
  CASE c.kind = "required" -> requiredRule(c, value)
    [] c.kind = "email" -> emailRule(c, value)
    [] c.kind = "minLength" -> minLengthRule(c, value)
    [] c.kind = "maxLength" -> maxLengthRule(c, value)
    [] c.kind = "match" -> matchRule(c, value, allValues)
    [] c.kind = "differentFrom" -> differentFromRule(c, value, allValues)
    [] c.kind = "requiredIf" -> requiredIfRule(c, value, allValues)
    [] c.kind = "dropdown" -> dropdownRule(c, value)
    [] c.kind = "number" -> numberRule(c, value)
    [] c.kind = "minValueAllowed" -> minValueAllowedRule(c, value)
    [] c.kind = "maxValueAllowed" -> maxValueAllowedRule(c, value)
    [] c.kind = "boolean" -> booleanRule(c, value)
    [] c.kind = "custom" -> customRule(c, value, allValues)
    [] c.kind = "pattern" -> patternRule(c, value)

(***************************************************************************)
(* A schema entry is one rule or an array of rules.                        *)
(***************************************************************************)
NoRule == Closure("none", noMessage, 0, "")
One(rule) == [isArray |-> FALSE, items |-> <<>>, rule |-> rule]
Many(items) == [isArray |-> TRUE, items |-> items, rule |-> NoRule]

\* const rules = Array.isArray(fieldSchema) ? fieldSchema : [fieldSchema]
RulesOf(fieldSchema) ==
  IF fieldSchema.isArray THEN fieldSchema.items ELSE <<fieldSchema.rule>>

(***************************************************************************)
(* The form controller (useForm).                                          *)
(***************************************************************************)
VARIABLES
  initialValues, validationSchema,      \* the hook's first two arguments
  validateOnChange, validateOnBlur, validateOnSubmit,
  initialErrors, initialTouched,        \* its options
  values, errors, touched, isSubmitting, \* the four useState cells
  calls,                                \* the suspended handler invocations
  last                                  \* the latest call or return, for observation

props == <<initialValues, validationSchema, validateOnChange, validateOnBlur,
           validateOnSubmit, initialErrors, initialTouched>>
vars == <<props, values, errors, touched, isSubmitting, calls, last>>

\* the field names of the forms explored, in the order the literals declare them
FieldOrder == <<"email", "confirmEmail">>
Fields == {FieldOrder[k] : k \in 1..Len(FieldOrder)}

\* Object.keys(obj): the keys present, in declaration order
ObjectKeys(obj) == SelectSeq(FieldOrder, LAMBDA k : k \in DOMAIN obj)

Slots == DOMAIN calls

\* a suspended invocation: the handler, its locals, and the await it is at
Idle ==
  [kind |-> "idle", pc |-> "", name |-> "", value |-> undefined, vals |-> EmptyObj,
   i |-> 0, rest |-> <<>>, newErrors |-> [k \in {} |-> ""], isValid |-> TRUE]

\* what the latest call or return was
\* (`settled`: how the promise an async handler returned was settled)
Event(op, phase, name, ret) ==
  [op |-> op, phase |-> phase, name |-> name, ret |-> ret,
   settled |-> IF phase = "return" THEN "fulfilled" ELSE "",
   value |-> undefined, vals |-> EmptyObj]

(***************************************************************************)
(* validateField: the loop over the rules, one await per rule.             *)
(***************************************************************************)
\* (a lookup that requires a value of a field the schema does not know)
FieldRulesRequiringUnknown(name) ==
  IF Has(validationSchema, name) THEN RulesOf(validationSchema[name])
  ELSE <<required(noMessage)>>

\* the rules validateField runs for `name`: none when the schema has no entry
FieldRules(name) ==
  IF Has(validationSchema, name) THEN RulesOf(validationSchema[name]) ELSE <<>>

\* const error = await Promise.resolve(rule(value, allValues))
RuleError(c) ==
  IF c.i = 0 THEN noError ELSE CallRule(FieldRules(c.name)[c.i], c.value, c.vals)

\* rule c.i has been called: the invocation is suspended at the await of its
\* result, or, the call having thrown, validateField's promise is rejected
AtRule(c) == [c EXCEPT !.pc = IF RuleError(c) = raised THEN "raised" ELSE "rule"]

\* the call enters validateField(name, value, allValues) and runs to its first
\* await: the first rule's result, or the resolved null when there is no rule
EnterField(c, name, value, allValues) ==
  AtRule([c EXCEPT !.name = name, !.value = value, !.vals = allValues,
                   !.i = IF Len(FieldRules(name)) > 0 THEN 1 ELSE 0])

\* (a loop that does not stop at the first error)
MoreRulesIgnoringError(c) == c.i > 0 /\ c.i < Len(FieldRules(c.name))

\* the loop goes on to the next rule: no error, and a rule is left
MoreRules(c) == c.i > 0 /\ ~ErrTruthy(RuleError(c)) /\ c.i < Len(FieldRules(c.name))

\* what validateField returns when the loop ends at the awaited rule
FieldError(c) == IF ErrTruthy(RuleError(c)) THEN RuleError(c) ELSE noError

\* (a controller that starts a handler only when none is suspended)
FreeSlotExclusive(p) == p = 1 /\ \A q \in Slots : calls[q].kind = "idle"

\* a free slot for a new invocation (the lowest, so that equal states coincide)
FreeSlot(p) == calls[p].kind = "idle" /\ \A q \in 1..(p - 1) : calls[q].kind # "idle"

\* for (const rule of rules): a rule passed and the next one is awaited
AwaitNextRule(p) ==
  /\ calls[p].pc = "rule" /\ MoreRules(calls[p])
  /\ calls' = [calls EXCEPT ![p] = AtRule([@ EXCEPT !.i = @ + 1])]
  /\ UNCHANGED <<props, values, errors, touched, isSubmitting, last>>

\* (a controller that records a thrown error as the field's error)
RuleRaisedCaught(p) ==
  /\ calls[p].pc = "raised"
  /\ errors' = Put(errors, calls[p].name, "Validation failed")
  /\ calls' = [calls EXCEPT ![p] = Idle]
  /\ last' = Event(calls[p].kind, "return", calls[p].name, "Validation failed")
  /\ UNCHANGED <<props, values, touched, isSubmitting>>

\* a rule has thrown: no handler has a try around `await validateField(...)`,
\* `await validateFields(...)` or `await validate()`, so the rejection unwinds
\* every frame of the invocation and rejects the promise the handler returned;
\* none of the statements after the await runs
RuleRaised(p) ==
  /\ calls[p].pc = "raised"
  /\ calls' = [calls EXCEPT ![p] = Idle]
  /\ last' = [Event(calls[p].kind, "return", calls[p].name, raised)
                EXCEPT !.settled = "rejected"]
  /\ UNCHANGED <<props, values, errors, touched, isSubmitting>>

\* validateField(name, value, allValues) called by the form's user
ValidateField(p, name, value, allValues) ==
  /\ FreeSlot(p)
  /\ calls' = [calls EXCEPT
       ![p] = EnterField([Idle EXCEPT !.kind = "validateField"], name, value, allValues)]
  /\ last' = Event("validateField", "call", name, "")
  /\ UNCHANGED <<props, values, errors, touched, isSubmitting>>

ValidateFieldReturns(p) ==
  /\ calls[p].kind = "validateField" /\ calls[p].pc = "rule" /\ ~MoreRules(calls[p])
  /\ calls' = [calls EXCEPT ![p] = Idle]
  /\ last' = [Event("validateField", "return", calls[p].name, FieldError(calls[p]))
                EXCEPT !.value = calls[p].value, !.vals = calls[p].vals]
  /\ UNCHANGED <<props, values, errors, touched, isSubmitting>>

(***************************************************************************)
(* validateFields and validate.                                            *)
(***************************************************************************)
\* the loop body after `await validateField(...)`: record the field's error
Visited(c) ==
  [c EXCEPT !.newErrors = IF ErrTruthy(FieldError(c)) THEN Put(@, c.name, FieldError(c)) ELSE @,
            !.isValid = IF ErrTruthy(FieldError(c)) THEN FALSE ELSE @]

\* validateFields running up to its first await, as `kind`
EnterFields(kind, fieldsToValidate, vals) ==
  EnterField([Idle EXCEPT !.kind = kind, !.rest = Tail(fieldsToValidate)],
             Head(fieldsToValidate), Get(vals, Head(fieldsToValidate)), vals)

\* (a merge that keeps only the new errors)
MergeErrorsReplacing(prev, newErrors) == newErrors

\* setErrors((prev) => ({ ...prev, ...newErrors }))
MergeErrors(prev, newErrors) == Spread(prev, newErrors)

ValidateFields(p, fieldsToValidate, vals) ==
  /\ fieldsToValidate # <<>>
  /\ FreeSlot(p)
  /\ calls' = [calls EXCEPT ![p] = EnterFields("validateFields", fieldsToValidate, vals)]
  /\ last' = Event("validateFields", "call", "", "")
  /\ UNCHANGED <<props, values, errors, touched, isSubmitting>>

Validate(p) ==
  /\ ObjectKeys(validationSchema) # <<>>
  /\ FreeSlot(p)
  /\ calls' = [calls EXCEPT
       ![p] = EnterFields("validate", ObjectKeys(validationSchema), values)]
  /\ last' = Event("validate", "call", "", "")
  /\ UNCHANGED <<props, values, errors, touched, isSubmitting>>

\* for (const fieldName of fieldsToValidate): the next field's validation starts
NextField(p) ==
  /\ calls[p].kind \in {"validateFields", "validate", "handleSubmit"}
  /\ calls[p].pc = "rule" /\ ~MoreRules(calls[p]) /\ calls[p].rest # <<>>
  /\ calls' = [calls EXCEPT ![p] =
       EnterField([Visited(calls[p]) EXCEPT !.rest = Tail(@)],
                  Head(calls[p].rest), Get(calls[p].vals, Head(calls[p].rest)),
                  calls[p].vals)]
  /\ UNCHANGED <<props, values, errors, touched, isSubmitting, last>>

ValidateFieldsReturns(p) ==
  /\ calls[p].kind \in {"validateFields", "validate"}
  /\ calls[p].pc = "rule" /\ ~MoreRules(calls[p]) /\ calls[p].rest = <<>>
  /\ errors' = MergeErrors(errors, Visited(calls[p]).newErrors)
  /\ calls' = [calls EXCEPT ![p] = Idle]
  /\ last' = Event(calls[p].kind, "return", "",
                   IF Visited(calls[p]).isValid THEN "true" ELSE "false")
  /\ UNCHANGED <<props, values, touched, isSubmitting>>

(***************************************************************************)
(* handleChange and handleBlur.                                            *)
(***************************************************************************)
\* (a change that stores the raw value of a checkbox)
FieldValueRaw(event) == event.value

\* const fieldValue = type === "checkbox" ? checked : value
FieldValue(event) == IF event.type = "checkbox" THEN Bool(event.checked) ELSE event.value

\* (a change that keeps the old error)
ClearExistingNever(errs, name) == errs

\* if (errors[name]) delete the entry
ClearExisting(errs, name) == IF ErrTruthy(GetErr(errs, name)) THEN Del(errs, name) ELSE errs

\* (validation on change without the touched test)
ChangeValidatesUntouched(name) == validateOnChange

\* if (validateOnChange && touched[name])
ChangeValidates(name) == validateOnChange /\ GetFlag(touched, name)

\* (a write that clears the entry when the field passes)
WriteErrorOrClear(prev, name, error) ==
  IF ErrTruthy(error) THEN Put(prev, name, error) ELSE Del(prev, name)

\* if (error) setErrors((prev) => ({ ...prev, [name]: error }))
WriteError(prev, name, error) == IF ErrTruthy(error) THEN Put(prev, name, error) ELSE prev

HandleChange(p, event) ==
  /\ values' = Put(values, event.name, FieldValue(event))
  /\ errors' = ClearExisting(errors, event.name)
  /\ IF ChangeValidates(event.name)
     THEN /\ FreeSlot(p)
          /\ calls' = [calls EXCEPT ![p] =
               EnterField([Idle EXCEPT !.kind = "handleChange"], event.name,
                          FieldValue(event), Put(values, event.name, FieldValue(event)))]
          /\ last' = Event("handleChange", "call", event.name, "")
     ELSE /\ p = 1
          /\ calls' = calls
          /\ last' = Event("handleChange", "return", event.name, "")
  /\ UNCHANGED <<props, touched, isSubmitting>>

\* (a completion that drops its result when the field's value has moved on)
ChangeReturnsUnlessStale(p) ==
  /\ calls[p].kind = "handleChange" /\ calls[p].pc = "rule" /\ ~MoreRules(calls[p])
  /\ errors' = IF Get(values, calls[p].name) = calls[p].value
               THEN WriteError(errors, calls[p].name, FieldError(calls[p]))
               ELSE errors
  /\ calls' = [calls EXCEPT ![p] = Idle]
  /\ last' = Event("handleChange", "return", calls[p].name, FieldError(calls[p]))
  /\ UNCHANGED <<props, values, touched, isSubmitting>>

ChangeReturns(p) ==
  /\ calls[p].kind = "handleChange" /\ calls[p].pc = "rule" /\ ~MoreRules(calls[p])
  /\ errors' = WriteError(errors, calls[p].name, FieldError(calls[p]))
  /\ calls' = [calls EXCEPT ![p] = Idle]
  /\ last' = Event("handleChange", "return", calls[p].name, FieldError(calls[p]))
  /\ UNCHANGED <<props, values, touched, isSubmitting>>

\* (a blur that marks the field only when it validates)
HandleBlurTouchingIfValidating(p, name) ==
  /\ IF validateOnBlur
     THEN /\ touched' = Put(touched, name, TRUE)
          /\ FreeSlot(p)
          /\ calls' = [calls EXCEPT ![p] =
               EnterField([Idle EXCEPT !.kind = "handleBlur"], name,
                          Get(values, name), values)]
          /\ last' = Event("handleBlur", "call", name, "")
     ELSE /\ p = 1
          /\ touched' = touched
          /\ calls' = calls
          /\ last' = Event("handleBlur", "return", name, "")
  /\ UNCHANGED <<props, values, errors, isSubmitting>>

HandleBlur(p, name) ==
  /\ touched' = Put(touched, name, TRUE)
  /\ IF validateOnBlur
     THEN /\ FreeSlot(p)
          /\ calls' = [calls EXCEPT ![p] =
               EnterField([Idle EXCEPT !.kind = "handleBlur"], name,
                          Get(values, name), values)]
          /\ last' = Event("handleBlur", "call", name, "")
     ELSE /\ p = 1
          /\ calls' = calls
          /\ last' = Event("handleBlur", "return", name, "")
  /\ UNCHANGED <<props, values, errors, isSubmitting>>

BlurReturns(p) ==
  /\ calls[p].kind = "handleBlur" /\ calls[p].pc = "rule" /\ ~MoreRules(calls[p])
  /\ errors' = WriteError(errors, calls[p].name, FieldError(calls[p]))
  /\ calls' = [calls EXCEPT ![p] = Idle]
  /\ last' = Event("handleBlur", "return", calls[p].name, FieldError(calls[p]))
  /\ UNCHANGED <<props, values, touched, isSubmitting>>

(***************************************************************************)
(* handleSubmit(onSubmit): the returned handler.                           *)
(***************************************************************************)
\* the handler up to its first await: validate() when validateOnSubmit (and the
\* schema has a key), else onSubmit(values)
EnterSubmit ==
  IF validateOnSubmit /\ ObjectKeys(validationSchema) # <<>>
  THEN EnterFields("handleSubmit", ObjectKeys(validationSchema), values)
  ELSE [Idle EXCEPT !.kind = "handleSubmit", !.pc = "onSubmit", !.vals = values]

HandleSubmit(p) ==
  /\ FreeSlot(p)
  /\ isSubmitting' = TRUE
  /\ calls' = [calls EXCEPT ![p] = EnterSubmit]
  /\ last' = Event("handleSubmit", "call", "", "")
  /\ UNCHANGED <<props, values, errors, touched>>

\* (an early return that forgets the flag)
AfterValidateKeeping(isValid, flag) == flag

\* the flag after `const isValid = await validate()`: cleared when invalid
AfterValidate(isValid, flag) == IF isValid THEN flag ELSE FALSE

\* (a handler that reads the newest Values when it calls onSubmit)
SubmittedValuesCurrent(c) == values

\* onSubmit(values): `values` is the handler's closure variable, the value set
\* of the render that also made its validate
SubmittedValues(c) == c.vals

\* validate() has returned: if (!isValid) { setIsSubmitting(false); return; }
\* and otherwise onSubmit(values) is called with the handler's own `values`
SubmitValidated(p) ==
  /\ calls[p].kind = "handleSubmit"
  /\ calls[p].pc = "rule" /\ ~MoreRules(calls[p]) /\ calls[p].rest = <<>>
  /\ errors' = MergeErrors(errors, Visited(calls[p]).newErrors)
  /\ isSubmitting' = AfterValidate(Visited(calls[p]).isValid, isSubmitting)
  /\ IF Visited(calls[p]).isValid
     THEN /\ calls' = [calls EXCEPT ![p] = [Visited(calls[p]) EXCEPT !.pc = "onSubmit"]]
          /\ last' = [Event("onSubmit", "call", "", "")
                        EXCEPT !.vals = SubmittedValues(calls[p])]
     ELSE /\ calls' = [calls EXCEPT ![p] = Idle]
          /\ last' = Event("handleSubmit", "return", "", "invalid")
  /\ UNCHANGED <<props, values, touched>>

\* the outcomes of `await onSubmit(values)`; a throw inside onSubmit and a
\* rejected promise both reach the catch block
Outcomes == {"resolved", "rejected"}

\* (a finally block that leaves the flag alone)
FinallyNothing(flag) == flag

\* try { await onSubmit(values) } catch { console.error } finally { setIsSubmitting(false) }
Finally(flag) == FALSE

\* (a handler without the catch block)
Rethrown(outcome) == IF outcome = "rejected" THEN "rejected" ELSE "fulfilled"

\* how the handler's own promise settles: the catch block swallows the error
Caught(outcome) == "fulfilled"

OnSubmitSettles(p, outcome) ==
  /\ calls[p].kind = "handleSubmit" /\ calls[p].pc = "onSubmit"
  /\ isSubmitting' = Finally(isSubmitting)
  /\ calls' = [calls EXCEPT ![p] = Idle]
  /\ last' = [Event("handleSubmit", "return", "", outcome) EXCEPT !.settled = Caught(outcome)]
  /\ UNCHANGED <<props, values, errors, touched>>

(***************************************************************************)
(* The synchronous operations and the accessors.                           *)
(***************************************************************************)
SetValue(name, value) ==
  /\ values' = Put(values, name, value)
  /\ last' = Event("setValue", "return", name, "")
  /\ UNCHANGED <<props, errors, touched, isSubmitting, calls>>

\* (a setError that replaces the whole map)
SetErrorReplacing(name, error) ==
  /\ errors' = [k \in {name} |-> error]
  /\ last' = Event("setError", "return", name, "")
  /\ UNCHANGED <<props, values, touched, isSubmitting, calls>>

SetError(name, error) ==
  /\ errors' = Put(errors, name, error)
  /\ last' = Event("setError", "return", name, "")
  /\ UNCHANGED <<props, values, touched, isSubmitting, calls>>

\* (a clearField that forgets the touched flag)
ClearFieldKeepingTouched(name) ==
  /\ values' = Del(values, name)
  /\ errors' = Del(errors, name)
  /\ last' = Event("clearField", "return", name, "")
  /\ UNCHANGED <<props, touched, isSubmitting, calls>>

ClearField(name) ==
  /\ values' = Del(values, name)
  /\ errors' = Del(errors, name)
  /\ touched' = Del(touched, name)
  /\ last' = Event("clearField", "return", name, "")
  /\ UNCHANGED <<props, isSubmitting, calls>>

\* (a reset to empty maps instead of the initial snapshots)
ResetToEmpty ==
  /\ values' = initialValues
  /\ errors' = [k \in {} |-> ""]
  /\ touched' = [k \in {} |-> TRUE]
  /\ isSubmitting' = FALSE
  /\ last' = Event("reset", "return", "", "")
  /\ UNCHANGED <<props, calls>>

Reset ==
  /\ values' = initialValues
  /\ errors' = initialErrors
  /\ touched' = initialTouched
  /\ isSubmitting' = FALSE
  /\ last' = Event("reset", "return", "", "")
  /\ UNCHANGED <<props, calls>>

\* (a clearErrors that also forgets which fields were touched)
ClearErrorsAndTouched ==
  /\ errors' = [k \in {} |-> ""]
  /\ touched' = [k \in {} |-> FALSE]
  /\ last' = Event("clearErrors", "return", "", "")
  /\ UNCHANGED <<props, values, isSubmitting, calls>>

ClearErrors ==
  /\ errors' = [k \in {} |-> ""]
  /\ last' = Event("clearErrors", "return", "", "")
  /\ UNCHANGED <<props, values, touched, isSubmitting, calls>>

\* (an accessor that ignores the touched flag)
hasErrorUntouched(name) == ErrTruthy(GetErr(errors, name))

\* (name) => !!errors[name] && !!touched[name]
hasError(name) == ErrTruthy(GetErr(errors, name)) /\ GetFlag(touched, name)

\* a ?? b
Nullish(a, b) == IF a = undefined \/ a = null THEN b ELSE a

\* the name and value of getFieldProps(name); onChange and onBlur are the handlers
getFieldProps(name) == [name |-> name, value |-> Nullish(Get(values, name), Str(<<>>))]

(***************************************************************************)
(* The forms and inputs explored.                                          *)
(***************************************************************************)
Empty == Str(<<>>)
NotAnEmail == Str(<<"a", "b">>)
AnEmail == Str(<<"a", "@", "b", ".", "c">>)
InputValues == {Empty, NotAnEmail, AnEmail}

\* change events of text inputs
InputsOf(name) == IF name = "email" THEN InputValues ELSE {Empty, AnEmail}
Events ==
  {e \in {[name |-> n, value |-> v, type |-> "text", checked |-> FALSE] :
            n \in Fields, v \in InputValues} : e.value \in InputsOf(e.name)}

\* the messages passed to setError
ManualErrors == {"Please verify email"}

\* the field lists passed to validateFields
FieldLists == {<<"email">>, <<"confirmEmail", "email">>}

\* a sign-up form: an email and its confirmation
SignUpSchema ==
  [f \in Fields |->
     IF f = "email" THEN Many(<<required(noMessage), email(noMessage)>>)
                    ELSE One(match("email", noMessage))]

NoErrors == [k \in {} |-> ""]
NoTouched == [k \in {} |-> TRUE]

\* the state after the first render, with room for n suspended invocations
InitState(n) ==
  /\ values = initialValues
  /\ errors = initialErrors
  /\ touched = initialTouched
  /\ isSubmitting = FALSE
  /\ calls = [p \in 1..n |-> Idle]
  /\ last = Event("useForm", "return", "", "")

InitController == InitState(MaxInFlight)

Init ==
  /\ initialValues = [f \in Fields |-> Empty]
  /\ validationSchema = SignUpSchema
  /\ validateOnChange = TRUE
  /\ validateOnBlur = TRUE
  /\ validateOnSubmit = TRUE
  /\ initialErrors = [k \in {"email"} |-> "Please verify email"]
  /\ initialTouched = [k \in {"email"} |-> TRUE]
  /\ InitController

Next ==
  \/ \E p \in Slots : \E event \in Events : HandleChange(p, event)
  \/ \E p \in Slots : ChangeReturns(p)
  \/ \E p \in Slots : \E name \in Fields : HandleBlur(p, name)
  \/ \E p \in Slots : BlurReturns(p)
  \/ \E p \in Slots : AwaitNextRule(p)
  \/ \E p \in Slots : \E names \in FieldLists : ValidateFields(p, names, values)
  \/ \E p \in Slots : Validate(p)
  \/ \E p \in Slots : NextField(p)
  \/ \E p \in Slots : ValidateFieldsReturns(p)
  \/ \E p \in Slots : HandleSubmit(p)
  \/ \E p \in Slots : SubmitValidated(p)
  \/ \E p \in Slots : \E outcome \in Outcomes : OnSubmitSettles(p, outcome)
  \/ \E name \in Fields : \E value \in InputsOf(name) : SetValue(name, value)
  \/ \E name \in Fields : \E error \in ManualErrors : SetError(name, error)
  \/ \E name \in Fields : ClearField(name)
  \/ Reset
  \/ ClearErrors

Spec == Init /\ [][Next]_vars

(***************************************************************************)
(* SpecValidate: validateField alone, over many schema entries for the     *)
(* field "email", many values and value sets.                              *)
(***************************************************************************)
Abc == Str(<<"a", "b", "c">>)
RulePool ==
  {required(noMessage), required(""), email(noMessage), minLength(3, noMessage),
   match("confirmEmail", noMessage)}
RuleLists == UNION {[1..n -> RulePool] : n \in 0..MaxRules}
SchemaEntries == {One(r) : r \in RulePool} \cup {Many(rs) : rs \in RuleLists}
Schemas ==
  {[k \in {} |-> One(NoRule)]} \cup {[k \in {"email"} |-> e] : e \in SchemaEntries}

ValidateValues == {undefined, null, Empty, NotAnEmail, AnEmail, Abc, Bool(FALSE), Num(0)}
\* the third argument: omitted (the current values) or given
ValidateAllValues == {values, [k \in {"confirmEmail"} |-> Abc]}

InitValidate ==
  /\ initialValues = [f \in Fields |-> Empty]
  /\ validationSchema \in Schemas
  /\ validateOnChange = TRUE
  /\ validateOnBlur = TRUE
  /\ validateOnSubmit = TRUE
  /\ initialErrors = NoErrors
  /\ initialTouched = NoTouched
  /\ InitState(1)

NextValidate ==
  \/ \E p \in Slots : \E name \in Fields : \E value \in ValidateValues :
       \E allValues \in ValidateAllValues : ValidateField(p, name, value, allValues)
  \/ \E p \in Slots : AwaitNextRule(p)
  \/ \E p \in Slots : ValidateFieldReturns(p)

SpecValidate == InitValidate /\ [][NextValidate]_vars

(***************************************************************************)
(* Claims.                                                                 *)
(***************************************************************************)
\* the rule at index i yields a non-empty error
Fails(rules, i, value, allValues) == ErrTruthy(CallRule(rules[i], value, allValues))

\* the message of the first rule, in declaration order, that yields a non-empty
\* error; no error when there is none
FirstError(rules, value, allValues) ==
  IF \E i \in 1..Len(rules) : Fails(rules, i, value, allValues)
  THEN CallRule(rules[CHOOSE i \in 1..Len(rules) :
                        /\ Fails(rules, i, value, allValues)
                        /\ \A j \in 1..(i - 1) : ~Fails(rules, j, value, allValues)],
                value, allValues)
  ELSE noError

RequiredThenMinLength == Many(<<required(noMessage), minLength(3, noMessage)>>)

\* C1: validateField(name, value, allValues) returns the message of the first
\* rule in declaration order that yields a non-empty error, and no-error exactly
\* when no rule yields one; for the schema [required, minLength(3)] and the value
\* "" it returns the required message, not the minLength message.
C1_FirstFailingRuleWins ==
  (last.op = "validateField" /\ last.phase = "return") =>
    /\ last.ret = FirstError(FieldRules(last.name), last.value, last.vals)
    /\ (last.ret = noError) <=>
         (\A i \in 1..Len(FieldRules(last.name)) :
            ~Fails(FieldRules(last.name), i, last.value, last.vals))
    /\ (/\ Has(validationSchema, last.name)
        /\ validationSchema[last.name] = RequiredThenMinLength
        /\ last.value = Empty)
         => (last.ret = "This field is required"
             /\ last.ret # minLengthRule(minLength(3, noMessage), NotAnEmail))

\* validateField has returned for [required, minLength(3)] on the value ""
C1_Witness ==
  /\ last.op = "validateField" /\ last.phase = "return" /\ last.name = "email"
  /\ validationSchema = [k \in {"email"} |-> RequiredThenMinLength]
  /\ last.value = Empty
  /\ last.ret = "This field is required"

\* a non-empty error entry
HasErrorEntry(errs, f) == Has(errs, f) /\ errs[f] # "" /\ errs[f] # noError /\ errs[f] # noMessage

\* a true touched entry
IsTouched(tch, f) == Has(tch, f) /\ tch[f] = TRUE

\* C2: with validateOnChange = true, a handleChange call for a field whose
\* touched flag is not truthy at the time of the call adds no entry to Errors,
\* for that field or any other, and changes none, even when the new value fails
\* the field's rules: the call returns without starting a validation.
C2_UntouchedChangeAddsNoError ==
  [][\A event \in Events :
       (/\ validateOnChange
        /\ ~IsTouched(touched, event.name)
        /\ \E p \in Slots : HandleChange(p, event))
       => /\ calls' = calls
          /\ last'.phase = "return"
          /\ \A f \in Fields : Has(errors', f) => (Has(errors, f) /\ errors'[f] = errors[f])]_vars

\* handleChange has returned for an untouched field whose new value fails its
\* rules, and the field has no error
C2_Witness ==
  /\ validateOnChange
  /\ last.op = "handleChange" /\ last.phase = "return" /\ last.ret = ""
  /\ ~IsTouched(touched, last.name)
  /\ ErrTruthy(FirstError(FieldRules(last.name), Get(values, last.name), values))
  /\ ~Has(errors, last.name)

(***************************************************************************)
(* SpecInteractive: a pristine form driven by change and blur events only, *)
(* no event for a field while a validation of that field is in flight.     *)
(***************************************************************************)
InitInteractive ==
  /\ initialValues = [f \in Fields |-> Empty]
  /\ validationSchema = SignUpSchema
  /\ validateOnChange = TRUE
  /\ validateOnBlur = TRUE
  /\ validateOnSubmit = TRUE
  /\ initialErrors = NoErrors
  /\ initialTouched = NoTouched
  /\ InitController

NoValidationOf(f) == \A q \in Slots : calls[q].kind = "idle" \/ calls[q].name # f

NextInteractive ==
  \/ \E p \in Slots : \E event \in Events :
       NoValidationOf(event.name) /\ HandleChange(p, event)
  \/ \E p \in Slots : ChangeReturns(p)
  \/ \E p \in Slots : \E name \in Fields : NoValidationOf(name) /\ HandleBlur(p, name)
  \/ \E p \in Slots : BlurReturns(p)
  \/ \E p \in Slots : AwaitNextRule(p)

SpecInteractive == InitInteractive /\ [][NextInteractive]_vars

\* Errors[f] is the message e, or absent when e is no error
ShowsError(errs, f, e) == IF ErrTruthy(e) THEN Has(errs, f) /\ errs[f] = e ELSE ~Has(errs, f)

\* C3: with validateOnBlur and validateOnChange enabled, from a pristine field
\* f and with no other validation of f in flight: handleBlur(f) validates the
\* current value of f and, when it completes, Touched[f] is true and Errors[f]
\* is the first failing rule's message for that value (absent if it passes);
\* each later handleChange(f, v) validates v against the updated value set and,
\* when it completes, Errors[f] is the first failing rule's message for v
\* (absent if v passes).  So for the schema [required(), email()]: blur on ""
\* gives the required message, a change to a non-address the email message, and
\* a change to an address no entry.
C3_BlurThenChangeShowFirstError ==
  [][\A p \in Slots :
       LET c == calls[p]
           f == calls[p].name
       IN /\ (\E name \in Fields : HandleBlur(p, name))
               => (calls'[p].vals = values /\ calls'[p].value = Get(values, calls'[p].name))
          /\ (\E event \in Events : HandleChange(p, event) /\ IsTouched(touched, event.name))
               => (calls'[p].vals = values' /\ calls'[p].value = Get(values', calls'[p].name))
          /\ (BlurReturns(p) /\ ~Has(errors, f))
               => /\ IsTouched(touched', f)
                  /\ c.value = Get(values', f)
                  /\ ShowsError(errors', f, FirstError(FieldRules(f), c.value, c.vals))
          /\ ChangeReturns(p)
               => /\ IsTouched(touched', f)
                  /\ c.value = Get(values', f)
                  /\ ShowsError(errors', f, FirstError(FieldRules(f), c.value, c.vals))
          /\ ((BlurReturns(p) \/ ChangeReturns(p)) /\ f = "email" /\ ~Has(errors, f))
               => /\ Get(values', f) = Empty => GetErr(errors', f) = "This field is required"
                  /\ Get(values', f) = NotAnEmail
                       => GetErr(errors', f) = "Please enter a valid email"
                  /\ Get(values', f) = AnEmail => ~Has(errors', f)]_vars

\* the end of the scenario: after a blur and changes, the change of email to an
\* address has completed and has left no error on the touched field
C3_Witness ==
  /\ last.op = "handleChange" /\ last.phase = "return" /\ last.name = "email"
  /\ last.ret = noError
  /\ IsTouched(touched, "email")
  /\ Get(values, "email") = AnEmail
  /\ ~Has(errors, "email")

\* some schema field fails validation against the value set vals
SomeFieldFails(vals) ==
  \E f \in DOMAIN validationSchema :
    ErrTruthy(FirstError(RulesOf(validationSchema[f]), Get(vals, f), vals))

\* the invocation in slot p is a submit handler whose validation is pending
ValidationPending(cs, p) == cs[p].kind = "handleSubmit" /\ cs[p].pc = "rule"

\* the invocation in slot p, a submit handler, returns in this step
SubmitReturns(p) == calls[p].kind = "handleSubmit" /\ calls'[p].kind = "idle"

OnSubmitThrew(p) ==
  /\ calls[p].kind = "handleSubmit" /\ calls[p].pc = "onSubmit"
  /\ calls'[p].kind = "idle"
  /\ last'.ret = "rejected"

\* C5: when onSubmit throws (or its awaited result rejects), the submit handler
\* completes normally without propagating the error, the submitting flag ends
\* false, and handling the error leaves Values, Errors and Touched as they were.
C5_OnSubmitErrorIsCaught ==
  [][\A p \in Slots :
       OnSubmitThrew(p)
         => /\ last'.op = "handleSubmit" /\ last'.phase = "return"
            /\ last'.settled = "fulfilled"
            /\ ~isSubmitting'
            /\ values' = values /\ errors' = errors /\ touched' = touched]_vars

\* a submit handler has returned after onSubmit threw
C5_Witness ==
  /\ last.op = "handleSubmit" /\ last.phase = "return" /\ last.ret = "rejected"
  /\ last.settled = "fulfilled"
  /\ ~isSubmitting

(***************************************************************************)
(* SpecSubmit: submissions, with the operations that change what they      *)
(* read or write, under the fairness of the job queue: a continuation      *)
(* whose awaited promise has settled is eventually run.                    *)
(***************************************************************************)
NextSubmit ==
  \/ \E p \in Slots : HandleSubmit(p)
  \/ \E p \in Slots : AwaitNextRule(p)
  \/ \E p \in Slots : NextField(p)
  \/ \E p \in Slots : SubmitValidated(p)
  \/ \E p \in Slots : \E outcome \in Outcomes : OnSubmitSettles(p, outcome)
  \/ \E name \in Fields : \E value \in InputsOf(name) : SetValue(name, value)
  \/ Reset

Resumed(p) ==
  \/ AwaitNextRule(p)
  \/ NextField(p)
  \/ SubmitValidated(p)
  \/ \E outcome \in Outcomes : OnSubmitSettles(p, outcome)

SpecSubmit ==
  /\ Init
  /\ [][NextSubmit]_vars
  /\ \A p \in 1..MaxInFlight : WF_vars(Resumed(p))

\* C6: every invocation of the submit handler in which each awaited rule and
\* the onSubmit callback eventually settle eventually returns, and the
\* submitting flag is false at the moment it returns, whether the submission
\* succeeded, validation failed or onSubmit threw.
C6_SubmitReturnsWithFlagCleared ==
  /\ \A p \in 1..MaxInFlight :
       (calls[p].kind = "handleSubmit") ~> (calls[p].kind = "idle")
  /\ [][\A p \in Slots :
          SubmitReturns(p)
            => /\ ~isSubmitting'
               /\ last'.op = "handleSubmit" /\ last'.phase = "return"
               /\ last'.ret \in {"resolved", "invalid", "rejected"}]_vars

\* a submit handler has returned after a successful submission
C6_Witness ==
  /\ last.op = "handleSubmit" /\ last.phase = "return" /\ last.ret = "resolved"
  /\ ~isSubmitting
  /\ \A p \in Slots : calls[p].kind = "idle"

\* a validation run of one field returns in this step
RunReturns(p) ==
  calls[p].kind \in {"handleBlur", "handleChange"} /\ calls'[p].kind = "idle"

\* a validation run over a list of fields ends in this step
ListRunEnds(p) ==
  /\ calls[p].kind \in {"validateFields", "validate", "handleSubmit"}
  /\ calls[p].pc = "rule"
  /\ calls'[p].kind = "idle" \/ calls'[p].pc = "onSubmit"

\* the entry of f is the same in both maps
SameEntry(m1, m2, f) == (Has(m1, f) <=> Has(m2, f)) /\ (Has(m1, f) => m1[f] = m2[f])

\* C7 as stated, at the states directly after a validation run of a field has
\* returned (that run is then the most recent one): Errors[f] non-empty means
\* the run found a failing rule, and Errors[f] absent means the run passed.
C7_ErrorsReflectLatestRun ==
  \A f \in Fields :
    (/\ last.op \in {"handleBlur", "handleChange"} /\ last.phase = "return"
     /\ last.name = f /\ last.ret # "")
      => /\ HasErrorEntry(errors, f) => ErrTruthy(last.ret)
         /\ ~Has(errors, f) => ~ErrTruthy(last.ret)

\* C7, amended: when a validation run of f completes having found a failing
\* rule, Errors[f] is set to that rule's message; when it completes having
\* passed, Errors[f] is left as it was, so an earlier entry (of an earlier run,
\* of setError or of initialErrors) stays in place.  A run never changes the
\* entry of a field it did not find failing.
C7_RunWritesFailureAndKeepsStaleEntry ==
  [][\A p \in Slots :
       LET c == calls[p]
           e == FirstError(FieldRules(c.name), c.value, c.vals)
       IN /\ RunReturns(p)
               => /\ last'.ret = e
                  /\ ErrTruthy(e) => (Has(errors', c.name) /\ errors'[c.name] = e)
                  /\ ~ErrTruthy(e) => errors' = errors
                  /\ \A g \in Fields \ {c.name} : SameEntry(errors', errors, g)
          /\ (c.kind \in {"validateFields", "validate", "handleSubmit"} /\ c.pc = "rule"
                /\ calls'[p].kind = c.kind /\ calls'[p].pc = "rule"
                /\ calls'[p].rest # c.rest)
               => /\ errors' = errors
                  /\ calls'[p].newErrors = (IF ErrTruthy(e) THEN Put(c.newErrors, c.name, e)
                                                          ELSE c.newErrors)
          /\ ListRunEnds(p)
               => \A g \in Fields :
                    IF g = c.name /\ ErrTruthy(e) THEN Has(errors', g) /\ errors'[g] = e
                    ELSE IF Has(c.newErrors, g) /\ g # c.name
                         THEN Has(errors', g) /\ errors'[g] = c.newErrors[g]
                         ELSE SameEntry(errors', errors, g)]_vars

\* a blur validation has returned having passed, and the field still has the
\* non-empty entry it had before
C7_Witness ==
  /\ last.op = "handleBlur" /\ last.phase = "return" /\ last.ret = noError
  /\ HasErrorEntry(errors, last.name)
  /\ FirstError(FieldRules(last.name), Get(values, last.name), values) = noError

\* C8: after any sequence of operations, reset() sets Values, Errors and
\* Touched to the initial values, initialErrors and initialTouched given at
\* construction and the submitting flag to false; the state after reset() is
\* that snapshot whether reset() was called once or twice in a row.
C8_ResetRestoresSnapshot ==
  (last.op = "reset") =>
    /\ values = initialValues
    /\ errors = initialErrors
    /\ touched = initialTouched
    /\ ~isSubmitting

\* reset() has been called while a handler was suspended, and the seeded error
\* and touched flag are back
C8_Witness ==
  /\ last.op = "reset"
  /\ \E p \in Slots : calls[p].kind = "handleSubmit"
  /\ initialErrors # NoErrors /\ errors = initialErrors
  /\ initialTouched # NoTouched /\ touched = initialTouched
  /\ ~isSubmitting

\* (a step that leaves the suspended handlers where they are and ends with
\* clearField(x) as the latest event is the clearField(x) call itself)
\* C9: clearField(x) removes x's entry from Values, Errors and Touched in one
\* step and leaves every other field's entries and the submitting flag
\* unchanged; directly afterwards hasError(x) is false and
\* getFieldProps(x).value is the empty string.
C9_ClearFieldRemovesOnlyThatField ==
  /\ [][\A x \in Fields :
          (last'.op = "clearField" /\ last'.name = x /\ calls' = calls)
            => /\ ~Has(values', x) /\ ~Has(errors', x) /\ ~Has(touched', x)
               /\ \A f \in Fields \ {x} :
                    /\ SameEntry(values', values, f)
                    /\ SameEntry(errors', errors, f)
                    /\ SameEntry(touched', touched, f)
               /\ isSubmitting' = isSubmitting]_vars
  /\ []((last.op = "clearField")
          => (~hasError(last.name) /\ getFieldProps(last.name).value = Empty))

\* clearField has removed a field while the other field keeps its error and
\* its touched flag and a submission is pending
C9_Witness ==
  /\ last.op = "clearField" /\ last.name = "confirmEmail"
  /\ ~Has(values, "confirmEmail") /\ ~Has(errors, "confirmEmail")
  /\ ~Has(touched, "confirmEmail")
  /\ HasErrorEntry(errors, "email") /\ IsTouched(touched, "email")
  /\ isSubmitting
  /\ getFieldProps("confirmEmail").value = Empty

\* C10: hasError(name) is true exactly when Errors[name] is non-empty and
\* Touched[name] is true; so a field that got an error (from validate(), a
\* failed submit or setError) while untouched reports hasError = false, and
\* reports true once it is blurred.
C10_HasErrorNeedsTouched ==
  /\ \A name \in Fields :
       hasError(name) <=> (HasErrorEntry(errors, name) /\ IsTouched(touched, name))
  /\ (last.op = "handleBlur" /\ last.phase = "call" /\ HasErrorEntry(errors, last.name))
       => hasError(last.name)

\* setError has given an untouched field an error, and hasError is false
C10_Witness ==
  /\ last.op = "setError"
  /\ HasErrorEntry(errors, last.name)
  /\ ~IsTouched(touched, last.name)
  /\ ~hasError(last.name)

(***************************************************************************)
(* SpecCatalog: validateField and validateFields on a form whose schema    *)
(* has one catalog rule for the field "email" and no entry for             *)
(* "confirmEmail", over many rules, values and value sets.                 *)
(***************************************************************************)
\* largest bound given to minValueAllowed and maxValueAllowed
MaxBound == 2

One1 == Str(<<"1">>)
Five == Str(<<"5">>)
Blank == Str(<<" ">>)
MinusOne == Str(<<"-", "1">>)

CatalogMessages == {noMessage, "custom message"}
CatalogOptions == {<<>>, <<One1, Five>>}
CatalogPredicates == {ValidatorFn(a, t) : a \in BOOLEAN, t \in {{}, {One1}}}

CatalogRules ==
  {required(m) : m \in CatalogMessages}
    \cup {email(m) : m \in CatalogMessages}
    \cup {minLength(3, m) : m \in CatalogMessages}
    \cup {maxLength(3, m) : m \in CatalogMessages}
    \cup {match("confirmEmail", m) : m \in CatalogMessages}
    \cup {differentFrom("confirmEmail", m) : m \in CatalogMessages}
    \cup {requiredIf("confirmEmail", e, m) : e \in {Bool(TRUE), Num(1)}, m \in CatalogMessages}
    \cup {dropdown(o, m) : o \in CatalogOptions, m \in CatalogMessages}
    \cup {number(m) : m \in CatalogMessages}
    \cup {minValueAllowed(k, m) : k \in (0 - MaxBound)..MaxBound, m \in CatalogMessages}
    \cup {maxValueAllowed(k, m) : k \in (0 - MaxBound)..MaxBound, m \in CatalogMessages}
    \cup {boolean(m) : m \in CatalogMessages}
    \cup {custom(f, m) : f \in CatalogPredicates, m \in CatalogMessages}

CatalogValues ==
  {undefined, null, Empty, Blank, One1, Five, MinusOne, NotAnEmail, AnEmail,
   DefaultOption, Bool(FALSE), Bool(TRUE), Num(0), Num(1), Num(5)}

\* the value sets: the other field unset, or holding one of these
CatalogAllValues ==
  {EmptyObj} \cup {[k \in {"confirmEmail"} |-> o] :
                     o \in {Empty, One1, Num(1), Num(0), Bool(TRUE), Bool(FALSE)}}

CatalogFieldLists == {<<"confirmEmail">>, <<"email", "confirmEmail">>}

InitCatalog ==
  /\ initialValues = [f \in Fields |-> Empty]
  /\ validationSchema \in {[k \in {"email"} |-> One(r)] : r \in CatalogRules}
  /\ validateOnChange = TRUE
  /\ validateOnBlur = TRUE
  /\ validateOnSubmit = TRUE
  /\ initialErrors = NoErrors
  /\ initialTouched = NoTouched
  /\ InitState(1)

NextCatalog ==
  \/ \E p \in Slots : \E name \in Fields : \E value \in CatalogValues :
       \E allValues \in CatalogAllValues : ValidateField(p, name, value, allValues)
  \/ \E p \in Slots : ValidateFieldReturns(p)
  \/ \E p \in Slots : \E names \in CatalogFieldLists : ValidateFields(p, names, values)
  \/ \E p \in Slots : NextField(p)
  \/ \E p \in Slots : ValidateFieldsReturns(p)

SpecCatalog == InitCatalog /\ [][NextCatalog]_vars

\* the rule the invocation in slot p has called and is awaiting
AwaitedRule(p) == FieldRules(calls[p].name)[calls[p].i]

\* the slots in which validateField awaits a rule built by the constructor `kind`
Called(kind) ==
  {p \in Slots : /\ calls[p].kind = "validateField" /\ calls[p].pc = "rule"
                 /\ calls[p].i > 0 /\ AwaitedRule(p).kind = kind}

\* validateField has just returned for a field whose one rule was built by `kind`
Returned(kind) ==
  /\ last.op = "validateField" /\ last.phase = "return"
  /\ Has(validationSchema, last.name)
  /\ FieldRules(last.name)[1].kind = kind

\* the rule of the field validateField has just returned for
ReturnedRule == FieldRules(last.name)[1]

\* the predicate's answer for the call validateField has just returned from
ReturnedAnswer == Answer(ReturnedRule.validatorFn, last.value, last.vals)

\* C11 as stated: validateField on a field whose rule is custom(p, message)
\* returns the message when p's result for (value, allValues) is falsy, and
\* no-error only when it is truthy, also when p is asynchronous.
C11_CustomFailsWhenPredicateFalsy ==
  Returned("custom")
    => /\ ~Truthy(ReturnedAnswer) => last.ret = ReturnedRule.message
       /\ last.ret = noError => Truthy(ReturnedAnswer)

\* no schema entry for the field
NoEntry(name) == ~Has(validationSchema, name)

\* C12: a field name with no entry in the validation schema is always valid:
\* validateField invokes no rule for it and returns no-error, for every value;
\* validateFields over a list containing it writes no error for it and the
\* field does not make the result false; the promises are fulfilled.
C12_FieldWithoutEntryIsValid ==
  /\ [](\A p \in Slots :
          (calls[p].pc = "rule" /\ NoEntry(calls[p].name))
            => (calls[p].i = 0 /\ RuleError(calls[p]) = noError))
  /\ []((last.op = "validateField" /\ last.phase = "return" /\ NoEntry(last.name))
          => (last.ret = noError /\ last.settled = "fulfilled"))
  /\ [][\A p \in Slots :
          LET c == calls[p] IN
          (c.kind = "validateFields" /\ c.pc = "rule" /\ NoEntry(c.name))
            => /\ (calls'[p].kind = "validateFields" /\ calls'[p].rest # c.rest)
                    => (calls'[p].isValid = c.isValid /\ calls'[p].newErrors = c.newErrors)
               /\ (calls'[p].kind = "idle")
                    => /\ SameEntry(errors', errors, c.name)
                       /\ last'.ret = (IF c.isValid THEN "true" ELSE "false")
                       /\ last'.settled = "fulfilled"]_vars

\* validateFields(["confirmEmail"]) has returned true and written nothing, on
\* a form whose "email" rule fails for the current value
C12_Witness ==
  /\ last.op = "validateFields" /\ last.phase = "return" /\ last.ret = "true"
  /\ NoEntry("confirmEmail")
  /\ ErrTruthy(FirstError(FieldRules("email"), Get(values, "email"), values))
  /\ errors = NoErrors

\* unset, null or the empty string
EmptyValue(v) == v = undefined \/ v = null \/ v = Str(<<>>)

\* C13: the rule built by required(message) returns the message exactly when
\* the value is unset (undefined), null or the empty string, and no-error for
\* every other value, including boolean false and numeric 0.
C13_RequiredFailsExactlyOnEmpty ==
  /\ \A p \in Called("required") :
       RuleError(calls[p]) =
         (IF EmptyValue(calls[p].value) THEN AwaitedRule(p).message ELSE noError)
  /\ Returned("required")
       => last.ret = (IF EmptyValue(last.value) THEN ReturnedRule.message ELSE noError)

\* validateField has returned no-error for the value false under required()
C13_Witness ==
  /\ Returned("required")
  /\ last.value = Bool(FALSE)
  /\ last.ret = noError

\* a === b: the same type and the same value
StrictEquals(a, b) ==
  /\ a.t = b.t
  /\ a.t = "string" => a.s = b.s
  /\ a.t = "boolean" => a.b = b.b
  /\ a.t = "number" => a.n = b.n

\* C14: match(other) returns no-error if and only if value strictly equals
\* allValues[other], and differentFrom(other) fails if and only if value
\* strictly equals allValues[other]; so on every input exactly one of the two
\* fails.
C14_MatchAndDifferentFromAreOpposite ==
  /\ \A p \in Called("match") :
       LET c == calls[p]
           other == AwaitedRule(p).fieldName
       IN /\ RuleError(c) = noError <=> StrictEquals(c.value, Get(c.vals, other))
          /\ RuleError(c) = noError
               <=> CallRule(differentFrom(other, noMessage), c.value, c.vals) # noError
  /\ \A p \in Called("differentFrom") :
       LET c == calls[p]
           other == AwaitedRule(p).fieldName
       IN /\ RuleError(c) # noError <=> StrictEquals(c.value, Get(c.vals, other))
          /\ RuleError(c) # noError
               <=> CallRule(match(other, noMessage), c.value, c.vals) = noError
  /\ Returned("match")
       => (last.ret = noError <=> StrictEquals(last.value, Get(last.vals, ReturnedRule.fieldName)))
  /\ Returned("differentFrom")
       => (last.ret # noError <=> StrictEquals(last.value, Get(last.vals, ReturnedRule.fieldName)))

\* match has failed for the string "1" against the number 1
C14_Witness ==
  /\ Returned("match")
  /\ last.value = One1 /\ Get(last.vals, ReturnedRule.fieldName) = Num(1)
  /\ last.ret = ReturnedRule.message

\* undefined, null, "", false or 0
Falsy(v) == EmptyValue(v) \/ v = Bool(FALSE) \/ v = Num(0)

\* C15: the rule built by requiredIf(other, expected) fails if and only if
\* allValues[other] strictly equals expected and the field's own value is falsy
\* (so it also fails for false and 0); when allValues[other] differs from
\* expected it passes for every value, including the empty string.
C15_RequiredIfFailsOnFalsyWhenExpected ==
  /\ \A p \in Called("requiredIf") :
       LET c == calls[p]
           r == AwaitedRule(p)
       IN RuleError(c) =
            (IF StrictEquals(Get(c.vals, r.fieldName), r.expectedValue) /\ Falsy(c.value)
             THEN r.message ELSE noError)
  /\ Returned("requiredIf")
       => last.ret =
            (IF /\ StrictEquals(Get(last.vals, ReturnedRule.fieldName),
                                ReturnedRule.expectedValue)
                /\ Falsy(last.value)
             THEN ReturnedRule.message ELSE noError)

\* requiredIf has failed for the value 0 while the other field holds the
\* expected value
C15_Witness ==
  /\ Returned("requiredIf")
  /\ Get(last.vals, ReturnedRule.fieldName) = ReturnedRule.expectedValue
  /\ last.value = Num(0)
  /\ last.ret = ReturnedRule.message

\* the slots in which validateField awaits a rule
CalledAny == {p \in Slots : calls[p].kind = "validateField" /\ calls[p].pc = "rule"
                            /\ calls[p].i > 0}

\* the default message of the constructors whose default depends on a parameter
TemplateMessage(r) ==
  CASE r.kind = "minLength" -> "Must be at least " \o ToString(r.length) \o " characters"
    [] r.kind = "maxLength" -> "Must be at most " \o ToString(r.length) \o " characters"
    [] r.kind = "minValueAllowed" -> "Must be at least " \o ToString(r.min)
    [] r.kind = "maxValueAllowed" -> "Must be at most " \o ToString(r.max)
    [] OTHER -> r.message

\* the message the rule was configured with: the custom message, or the
\* constructor's default when it was omitted
ConfiguredMessage(r) == IF r.message = noMessage THEN TemplateMessage(r) ELSE r.message

\* C16 as stated: a rule built by a catalog constructor returns, on every
\* input, either no-error or exactly the message it was configured with (the
\* custom message, or the constructor's default when omitted), dropdown on an
\* unset, empty or "default" value included.
C16_RuleReturnsConfiguredMessage ==
  \A p \in CalledAny :
    RuleError(calls[p]) \in {noError, ConfiguredMessage(AwaitedRule(p))}

\* not NaN under Number(value), the test the catalog's `number` rule makes
Numeric(v) == ~JsNumber(v).nan

\* C17 as stated: minValueAllowed(min) and maxValueAllowed(max) fail only when
\* the value is non-empty and numeric and lies below min / above max; every
\* empty value (unset, null, empty string) and every non-numeric value passes.
C17_BoundsFailOnlyOnNumbersOutOfRange ==
  /\ \A p \in Called("minValueAllowed") :
       LET c == calls[p] IN
       /\ RuleError(c) # noError
            => (~EmptyValue(c.value) /\ Numeric(c.value)
                  /\ JsNumber(c.value).n < AwaitedRule(p).min)
       /\ (EmptyValue(c.value) \/ ~Numeric(c.value)) => RuleError(c) = noError
  /\ \A p \in Called("maxValueAllowed") :
       LET c == calls[p] IN
       /\ RuleError(c) # noError
            => (~EmptyValue(c.value) /\ Numeric(c.value)
                  /\ JsNumber(c.value).n > AwaitedRule(p).max)
       /\ (EmptyValue(c.value) \/ ~Numeric(c.value)) => RuleError(c) = noError

(***************************************************************************)
(* SpecChange: change and blur events on the sign-up form, with overlapping *)
(* validations, change validation enabled or not, and a checkbox.          *)
(***************************************************************************)
\* number of validations that may be in flight at the same time
MaxOverlap == 2

\* change events: text typed into "email", and a checkbox standing for
\* "confirmEmail"
ChangeEvents ==
  {e \in Events : e.name = "email" /\ e.value # Empty}
    \cup {[name |-> "confirmEmail", value |-> Str(<<"o", "n">>), type |-> "checkbox",
           checked |-> b] : b \in BOOLEAN}

InitChange ==
  /\ initialValues = [f \in Fields |-> Empty]
  /\ validationSchema = SignUpSchema
  /\ validateOnChange \in BOOLEAN
  /\ validateOnBlur = TRUE
  /\ validateOnSubmit = TRUE
  /\ initialErrors = [k \in {"email"} |-> "Please verify email"]
  /\ initialTouched = [k \in {"email"} |-> TRUE]
  /\ InitState(MaxOverlap)

NextChange ==
  \/ \E p \in Slots : \E event \in ChangeEvents : HandleChange(p, event)
  \/ \E p \in Slots : ChangeReturns(p)
  \/ \E p \in Slots : HandleBlur(p, "email")
  \/ \E p \in Slots : BlurReturns(p)
  \/ \E p \in Slots : AwaitNextRule(p)

SpecChange == InitChange /\ [][NextChange]_vars

\* C18: overlapping validations of the same field are neither sequenced,
\* cancelled nor de-duplicated: a step of one invocation leaves every other
\* suspended invocation as it is, and a validation that settles with an error
\* writes it to Errors[f] whatever has happened to Values[f] since it started;
\* so Errors[f] can hold the message computed for v1 while Values[f] = v2.
C18_OverlappingValidationsAllWrite ==
  [][\A p \in Slots :
       LET c == calls[p]
           e == FirstError(FieldRules(c.name), c.value, c.vals)
       IN /\ (c.kind # "idle" /\ \E q \in Slots \ {p} : calls'[q] # calls[q])
               => calls'[p] = c
          /\ (RunReturns(p) /\ ErrTruthy(e))
               => (Has(errors', c.name) /\ errors'[c.name] = e)]_vars

\* the validation of an earlier change to a non-address has settled last:
\* the field holds an address and the error computed for the non-address
C18_Witness ==
  /\ last.op = "handleChange" /\ last.phase = "return" /\ last.name = "email"
  /\ last.ret = "Please enter a valid email"
  /\ Get(values, "email") = AnEmail
  /\ GetErr(errors, "email") = "Please enter a valid email"
  /\ FirstError(FieldRules("email"), AnEmail, values) = noError
  /\ \A p \in Slots : calls[p].kind = "idle"

\* a validateFields or validate invocation is suspended in slot p
ListRun(p) == calls[p].kind \in {"validateFields", "validate"} /\ calls[p].pc = "rule"

\* C19: validateFields(names, values) returns true if and only if every
\* visited field passed; it writes Errors[f] for exactly the visited fields
\* that failed and leaves every other Errors entry as it was, a stale error of
\* a visited field that passed included; it never changes Values, Touched or
\* the submitting flag.  (Stated step by step: the run starts with no failure
\* recorded, records a failure for each visited field that fails and for no
\* other, and at its end returns whether none was recorded and writes the
\* recorded ones.)
C19_ValidateFieldsWritesFailuresOnly ==
  /\ [](\A p \in Slots : ListRun(p) => (calls[p].isValid <=> calls[p].newErrors = NoErrors))
  /\ [][\A p \in Slots :
          LET c == calls[p]
              d == calls'[p]
              e == FirstError(FieldRules(c.name), Get(c.vals, c.name), c.vals)
          IN /\ (c.kind = "idle" /\ d.kind \in {"validateFields", "validate"})
                  => /\ d.isValid /\ d.newErrors = NoErrors
                     /\ UNCHANGED <<values, errors, touched, isSubmitting>>
             /\ (ListRun(p) /\ d # c)
                  => /\ UNCHANGED <<values, touched, isSubmitting>>
                     /\ (d.kind = c.kind /\ d.rest = c.rest)
                          => (errors' = errors /\ d.newErrors = c.newErrors
                                /\ d.isValid = c.isValid)
                     /\ (d.kind = c.kind /\ d.rest # c.rest)
                          => /\ errors' = errors
                             /\ d.isValid = (c.isValid /\ ~ErrTruthy(e))
                             /\ d.newErrors = (IF ErrTruthy(e) THEN Put(c.newErrors, c.name, e)
                                                              ELSE c.newErrors)
                     /\ (d.kind = "idle")
                          => /\ last'.ret = (IF c.isValid /\ ~ErrTruthy(e) THEN "true" ELSE "false")
                             /\ \A g \in Fields :
                                  IF g = c.name /\ ErrTruthy(e)
                                  THEN Has(errors', g) /\ errors'[g] = e
                                  ELSE IF Has(c.newErrors, g)
                                       THEN Has(errors', g) /\ errors'[g] = c.newErrors[g]
                                       ELSE SameEntry(errors', errors, g)]_vars

\* validateFields has returned false for the failing "confirmEmail", and the
\* visited "email", which passes, keeps its stale error
C19_Witness ==
  /\ last.op = "validateFields" /\ last.phase = "return" /\ last.ret = "false"
  /\ GetErr(errors, "confirmEmail") = "Values do not match"
  /\ GetErr(errors, "email") = "Please verify email"
  /\ FirstError(FieldRules("email"), Get(values, "email"), values) = noError
  /\ ErrTruthy(FirstError(FieldRules("confirmEmail"), Get(values, "confirmEmail"), values))

\* C20: handleChange(f, v) writes v into Values[f] (the checked flag for a
\* checkbox input, the raw value otherwise) and removes any existing Errors[f]
\* entry before any rule result is awaited, so an error for f appears again
\* only when a validation of f settles; when validateOnChange is disabled the
\* call returns without starting a validation, so it writes no error
\* afterwards; and it never changes Touched.
C20_ChangeWritesValueAndClearsError ==
  /\ [][\A p \in Slots : \A event \in ChangeEvents :
          HandleChange(p, event)
            => /\ Has(values', event.name)
               /\ values'[event.name] = (IF event.type = "checkbox" THEN Bool(event.checked)
                                                                  ELSE event.value)
               /\ \A g \in Fields \ {event.name} :
                    SameEntry(values', values, g) /\ SameEntry(errors', errors, g)
               /\ ~HasErrorEntry(errors', event.name)
               /\ touched' = touched
               /\ ~validateOnChange => (calls' = calls /\ last'.phase = "return")]_vars
  /\ [][\A p \in Slots :
          (calls[p].kind = "handleChange" /\ calls'[p] # calls[p])
            => (touched' = touched /\ values' = values)]_vars
  /\ [][\A f \in Fields :
          (~HasErrorEntry(errors, f) /\ HasErrorEntry(errors', f))
            => \E p \in Slots : RunReturns(p) /\ calls[p].name = f]_vars
  /\ [](~validateOnChange => \A p \in Slots : calls[p].kind # "handleChange")

\* with validateOnChange disabled, a change of the touched "email" to a
\* non-address has removed its error and no validation was started; the
\* checkbox holds its checked flag
C20_Witness ==
  /\ ~validateOnChange
  /\ last.op = "handleChange" /\ last.phase = "return" /\ last.name = "email"
  /\ Get(values, "email") = NotAnEmail
  /\ Get(values, "confirmEmail") = Bool(TRUE)
  /\ IsTouched(touched, "email")
  /\ ~Has(errors, "email")
  /\ \A p \in Slots : calls[p].kind = "idle"

(***************************************************************************)
(* SpecBlur: blur events on the sign-up form, blur validation enabled or   *)
(* not, with the values and errors changing in between.                    *)
(***************************************************************************)
InitBlur ==
  /\ initialValues = [f \in Fields |-> Empty]
  /\ validationSchema = SignUpSchema
  /\ validateOnChange = TRUE
  /\ validateOnBlur \in BOOLEAN
  /\ validateOnSubmit = TRUE
  /\ initialErrors = [k \in {"email"} |-> "Please verify email"]
  /\ initialTouched = [k \in {"email"} |-> TRUE]
  /\ InitState(1)

NextBlur ==
  \/ \E p \in Slots : \E name \in Fields : HandleBlur(p, name)
  \/ \E p \in Slots : BlurReturns(p)
  \/ \E p \in Slots : AwaitNextRule(p)
  \/ \E name \in Fields : \E value \in InputsOf(name) : SetValue(name, value)
  \/ ClearErrors

SpecBlur == InitBlur /\ [][NextBlur]_vars

\* C21: handleBlur(f) always sets Touched[f] to true, whatever validateOnBlur
\* is, and never changes Values or the submitting flag; when validateOnBlur is
\* disabled it starts no validation and leaves Errors unchanged, and when
\* enabled it validates f against the current Values and the only Errors entry
\* it may write is Errors[f].
C21_BlurTouchesAndWritesOwnErrorOnly ==
  /\ [][\A p \in Slots : \A name \in Fields :
          HandleBlur(p, name)
            => /\ IsTouched(touched', name)
               /\ \A g \in Fields \ {name} : SameEntry(touched', touched, g)
               /\ values' = values /\ errors' = errors
               /\ isSubmitting' = isSubmitting
               /\ ~validateOnBlur => (calls' = calls /\ last'.phase = "return")
               /\ validateOnBlur
                    => /\ calls'[p].kind = "handleBlur" /\ calls'[p].name = name
                       /\ calls'[p].value = Get(values, name)
                       /\ calls'[p].vals = values]_vars
  /\ [][\A p \in Slots :
          (calls[p].kind = "handleBlur" /\ calls'[p] # calls[p])
            => /\ values' = values /\ touched' = touched
               /\ isSubmitting' = isSubmitting
               /\ \A g \in Fields \ {calls[p].name} : SameEntry(errors', errors, g)
               /\ calls'[p].kind # "idle" => errors' = errors]_vars
  /\ [](~validateOnBlur => \A p \in Slots : calls[p].kind # "handleBlur")

\* with validateOnBlur disabled, a blur of "confirmEmail" has marked it
\* touched and written no error although its rule fails for the current values
C21_Witness ==
  /\ ~validateOnBlur
  /\ last.op = "handleBlur" /\ last.phase = "return" /\ last.name = "confirmEmail"
  /\ IsTouched(touched, "confirmEmail")
  /\ ErrTruthy(FirstError(FieldRules("confirmEmail"), Get(values, "confirmEmail"), values))
  /\ ~Has(errors, "confirmEmail")

\* the result of the k-th rule of the field the invocation c is validating
RuleResult(c, k) == CallRule(FieldRules(c.name)[k], c.value, c.vals)

\* the index of the first rule called for a field: none when it has no rule
FirstIndex(name) == IF Len(FieldRules(name)) > 0 THEN 1 ELSE 0

\* C22: rule evaluation is strictly sequential: within one validateField call
\* rule i+1 is invoked only when rule i's result has settled without an error,
\* so no rule after the first failing rule is ever invoked; within one
\* validateFields call the fields are visited one at a time in the order of the
\* input list, the next field's first rule being invoked only when the
\* previous field's validation has settled.
C22_RulesAndFieldsInSequence ==
  /\ [](\A p \in Slots :
          calls[p].pc = "rule"
            => /\ calls[p].i <= Len(FieldRules(calls[p].name))
               /\ \A k \in 1..(calls[p].i - 1) : ~ErrTruthy(RuleResult(calls[p], k)))
  /\ [][\A p \in Slots :
          LET c == calls[p]
              d == calls'[p]
          IN /\ (c.kind = "idle" /\ d.kind # "idle" /\ d.pc = "rule")
                  => /\ d.i = FirstIndex(d.name)
                     /\ d.kind \in {"validateFields", "validate", "handleSubmit"}
                          => <<d.name>> \o d.rest
                               \in FieldLists \cup {ObjectKeys(validationSchema)}
             /\ (c.pc = "rule" /\ d.pc = "rule" /\ d # c /\ d.rest = c.rest)
                  => /\ d = [c EXCEPT !.i = c.i + 1]
                     /\ c.i > 0 /\ ~ErrTruthy(RuleResult(c, c.i))
             /\ (c.pc = "rule" /\ d.pc = "rule" /\ d.rest # c.rest)
                  => /\ c.rest # <<>>
                     /\ d.name = Head(c.rest) /\ d.rest = Tail(c.rest)
                     /\ d.value = Get(c.vals, d.name) /\ d.vals = c.vals
                     /\ d.i = FirstIndex(d.name)
                     /\ \/ c.i = Len(FieldRules(c.name))
                        \/ ErrTruthy(RuleResult(c, c.i))]_vars

\* validateFields(["confirmEmail", "email"]) has recorded the failure of the
\* first field and awaits the second rule of the second field
C22_Witness ==
  \E p \in Slots :
    /\ calls[p].kind = "validateFields" /\ calls[p].pc = "rule"
    /\ calls[p].name = "email" /\ calls[p].i = 2
    /\ Has(calls[p].newErrors, "confirmEmail")
    /\ ~ErrTruthy(RuleResult(calls[p], 1))

\* the entries of every field other than n are the same in the next state
OthersUnchanged(n) ==
  \A m \in Fields \ {n} :
    /\ SameEntry(values', values, m)
    /\ SameEntry(errors', errors, m)
    /\ SameEntry(touched', touched, m)

\* this step is made by handleChange, handleBlur or clearField on n: the call
\* itself, or a later step of the invocation it started
StepOn(n) ==
  \/ /\ last'.op \in {"handleChange", "handleBlur", "clearField"} /\ last'.name = n
     /\ calls' = calls \/ last' # last
  \/ \E p \in Slots : /\ calls[p].kind \in {"handleChange", "handleBlur"}
                      /\ calls[p].name = n
                      /\ calls'[p] # calls[p]

\* C23: per-field operations touch only the named field: setValue(n, v)
\* changes only Values[n], setError(n, e) only Errors[n], and neither starts a
\* validation; handleChange, handleBlur and clearField on n never add, change
\* or remove an entry of another field m in Values, Errors or Touched, so a
\* change of a field never re-validates a field whose rule refers to it.
C23_PerFieldOperationsTouchOneField ==
  [][\A n \in Fields :
       /\ (\E v \in InputsOf(n) : SetValue(n, v))
            => /\ OthersUnchanged(n) /\ Has(values', n)
               /\ errors' = errors /\ touched' = touched
               /\ isSubmitting' = isSubmitting /\ calls' = calls
       /\ (\E e \in ManualErrors : SetError(n, e))
            => /\ OthersUnchanged(n) /\ Has(errors', n)
               /\ values' = values /\ touched' = touched
               /\ isSubmitting' = isSubmitting /\ calls' = calls
       /\ StepOn(n)
            => /\ OthersUnchanged(n)
               /\ \A p \in Slots :
                    calls'[p] # calls[p] => calls'[p].name \in {n, ""}]_vars

\* a change of "email" has been validated and has returned; the touched
\* "confirmEmail", whose match rule now fails, has no error
C23_Witness ==
  /\ last.op = "handleChange" /\ last.phase = "return" /\ last.name = "email"
  /\ last.ret = noError
  /\ IsTouched(touched, "confirmEmail")
  /\ ErrTruthy(FirstError(FieldRules("confirmEmail"), Get(values, "confirmEmail"), values))
  /\ ~Has(errors, "confirmEmail")

(***************************************************************************)
(* SpecHung: the promise awaited by the first invocation that suspends     *)
(* (a rule's result, or onSubmit's) never settles; the invocations started *)
(* after it are resumed as usual.  Submission calls onSubmit directly.     *)
(***************************************************************************)
\* the slot of the invocation that hangs, and the slot of the others
HungSlot == 1
LiveSlot == 2

\* the inputs while the first invocation hangs
HungEvents == {e \in Events : e.name = "email" /\ e.value = NotAnEmail}
HungValues == {AnEmail}

InitHung ==
  /\ initialValues = [f \in Fields |-> Empty]
  /\ validationSchema = SignUpSchema
  /\ validateOnChange = TRUE
  /\ validateOnBlur = TRUE
  /\ validateOnSubmit = FALSE
  /\ initialErrors = NoErrors
  /\ initialTouched = [k \in {"email"} |-> TRUE]
  /\ InitState(LiveSlot)

\* an invocation in the live slot is resumed
ResumedLive ==
  \/ AwaitNextRule(LiveSlot)
  \/ NextField(LiveSlot)
  \/ ChangeReturns(LiveSlot)
  \/ BlurReturns(LiveSlot)
  \/ ValidateFieldsReturns(LiveSlot)
  \/ \E outcome \in Outcomes : OnSubmitSettles(LiveSlot, outcome)

NextHung ==
  \/ \E p \in Slots : \E event \in HungEvents : HandleChange(p, event)
  \/ \E p \in Slots : \E name \in Fields : HandleBlur(p, name)
  \/ \E p \in Slots : Validate(p)
  \/ \E p \in Slots : HandleSubmit(p)
  \/ ResumedLive
  \/ \E value \in HungValues : SetValue("confirmEmail", value)
  \/ \E error \in ManualErrors : SetError("confirmEmail", error)
  \/ ClearField("email")
  \/ Reset
  \/ ClearErrors

SpecHung == InitHung /\ [][NextHung]_vars

\* the first invocation is suspended on a promise that never settles
Hung == calls[HungSlot].kind # "idle"

\* every operation of the controller can be started
OperationsStart ==
  /\ \A event \in HungEvents : ENABLED (\E p \in Slots : HandleChange(p, event))
  /\ \A name \in Fields : ENABLED (\E p \in Slots : HandleBlur(p, name))
  /\ ENABLED (\E p \in Slots : Validate(p))
  /\ ENABLED (\E p \in Slots : HandleSubmit(p))
  /\ \A value \in HungValues : ENABLED SetValue("confirmEmail", value)
  /\ \A error \in ManualErrors : ENABLED SetError("confirmEmail", error)
  /\ ENABLED ClearField("email")
  /\ ENABLED Reset
  /\ ENABLED ClearErrors

\* what the latest operation did is in the state
UsualEffect ==
  /\ last.op = "reset" =>
       /\ values = initialValues /\ errors = initialErrors
       /\ touched = initialTouched /\ ~isSubmitting
  /\ last.op = "clearField" =>
       ~Has(values, last.name) /\ ~Has(errors, last.name) /\ ~Has(touched, last.name)
  /\ last.op = "setValue" => Has(values, last.name)
  /\ last.op = "setError" => HasErrorEntry(errors, last.name)
  /\ last.op = "clearErrors" => errors = NoErrors
  /\ (last.op = "handleChange" /\ last.phase = "call") => ~Has(errors, last.name)
  /\ (last.op = "handleBlur" /\ last.phase = "call") => IsTouched(touched, last.name)
  /\ (last.op = "handleBlur" /\ last.phase = "return" /\ last.ret \notin {"", noError}) =>
       GetErr(errors, last.name) = last.ret
  /\ (last.op = "handleSubmit" /\ last.phase = "return") => ~isSubmitting

\* C24: while the first invocation hangs on a rule or on onSubmit that never
\* settles, every operation can still be started (the asynchronous ones as
\* soon as the other invocation has returned, the synchronous ones always)
\* and has its usual effect, an invocation started later can always be
\* resumed up to its return, and the hung invocation itself never moves, so
\* only its own update stays pending.
C24_HungInvocationBlocksNothing ==
  /\ [](Hung => /\ UsualEffect
                /\ calls[LiveSlot].kind = "idle" => OperationsStart
                /\ calls[LiveSlot].kind # "idle" => ENABLED ResumedLive)
  /\ [][Hung => calls'[HungSlot] = calls[HungSlot]]_vars

\* an email rule hangs since the blur of email; meanwhile confirmEmail was
\* blurred, validated and got its error
C24_Witness ==
  /\ calls[HungSlot].kind = "handleBlur" /\ calls[HungSlot].name = "email"
  /\ calls[LiveSlot].kind = "idle"
  /\ last.op = "handleBlur" /\ last.phase = "return" /\ last.name = "confirmEmail"
  /\ HasErrorEntry(errors, "confirmEmail")
  /\ ~Has(errors, "email")

(***************************************************************************)
(* SpecRaise: the email field's pattern is a RegExp or, by a programming   *)
(* error, a string, whose rule throws when it is called.                   *)
(***************************************************************************)
AddressPattern == RegExp({AnEmail.s})

PatternSchema(regex) ==
  [f \in Fields |->
     IF f = "email" THEN Many(<<required(noMessage), pattern(regex, noMessage)>>)
                    ELSE One(match("email", noMessage))]

InitRaise ==
  /\ initialValues = [f \in Fields |-> Empty]
  /\ validationSchema \in {PatternSchema(regex) : regex \in {AddressPattern, NotARegExp}}
  /\ validateOnChange = TRUE
  /\ validateOnBlur = TRUE
  /\ validateOnSubmit = TRUE
  /\ initialErrors = NoErrors
  /\ initialTouched = [k \in {"email"} |-> TRUE]
  /\ InitState(MaxInFlight)

NextRaise ==
  \/ \E p \in Slots : \E name \in Fields : \E value \in InputsOf(name) :
       ValidateField(p, name, value, values)
  \/ \E p \in Slots : ValidateFieldReturns(p)
  \/ \E p \in Slots : \E names \in FieldLists : ValidateFields(p, names, values)
  \/ \E p \in Slots : Validate(p)
  \/ \E p \in Slots : \E event \in Events : HandleChange(p, event)
  \/ \E p \in Slots : \E name \in Fields : HandleBlur(p, name)
  \/ \E p \in Slots : HandleSubmit(p)
  \/ \E p \in Slots : AwaitNextRule(p)
  \/ \E p \in Slots : NextField(p)
  \/ \E p \in Slots : ValidateFieldsReturns(p)
  \/ \E p \in Slots : ChangeReturns(p)
  \/ \E p \in Slots : BlurReturns(p)
  \/ \E p \in Slots : SubmitValidated(p)
  \/ \E p \in Slots : \E outcome \in Outcomes : OnSubmitSettles(p, outcome)
  \/ \E p \in Slots : RuleRaised(p)

SpecRaise == InitRaise /\ [][NextRaise]_vars

\* the rules of f, run on `vals`, end with a throw
RunRaises(f, vals) == FirstError(FieldRules(f), Get(vals, f), vals) = raised

\* the step that unwinds invocation p after a rule has thrown
Unwinds(p) == calls[p].pc = "raised" /\ calls'[p] # calls[p]

\* a step of invocation p that is neither its call nor its return
Continues(p) ==
  /\ calls[p].kind # "idle" /\ calls'[p] # calls[p]
  /\ calls'[p].pc \in {"rule", "raised"}

\* C25: a rule that throws rejects the promise of validateField and of the
\* operation that awaits it (validateField, validateFields, validate,
\* handleChange, handleBlur, the submit handler): the invocation ends rejected
\* on the spot, without touching Values, Errors, Touched or the submitting
\* flag; it wrote nothing to Errors before either; and a submission whose
\* validation meets a throwing rule never calls onSubmit.
C25_RaisedErrorPropagates ==
  /\ [](\A p \in Slots :
          /\ calls[p].pc = "raised" <=> (calls[p].kind # "idle" /\ RuleError(calls[p]) = raised)
          /\ calls[p].pc = "onSubmit" =>
               \A f \in DOMAIN validationSchema : ~RunRaises(f, calls[p].vals))
  /\ [][\A p \in Slots :
          /\ Unwinds(p) =>
               /\ calls'[p] = Idle
               /\ last'.op = calls[p].kind /\ last'.phase = "return"
               /\ last'.settled = "rejected"
               /\ values' = values /\ errors' = errors /\ touched' = touched
               /\ isSubmitting' = isSubmitting
          /\ Continues(p) => errors' = errors]_vars

\* a submission has ended rejected by a throwing email rule: no entry for email,
\* and the flag still set
C25_Witness ==
  /\ last.op = "handleSubmit" /\ last.phase = "return" /\ last.settled = "rejected"
  /\ RunRaises("email", values)
  /\ ~Has(errors, "email")
  /\ isSubmitting

\* C26 as stated: in every reachable state the submitting flag is true if and
\* only if an invocation of the submit handler has started and not yet ended.
C26_FlagIffSubmissionPending ==
  isSubmitting <=> \E p \in Slots : calls[p].kind = "handleSubmit"

\* every schema field passes its rules on `vals`
AllPass(vals) ==
  \A f \in DOMAIN validationSchema :
    ~ErrTruthy(FirstError(FieldRules(f), Get(vals, f), vals))

\* C27: with validateOnSubmit enabled, onSubmit is called with the value set
\* the submit handler captured when it was invoked; that set is the one every
\* rule of this submission's validation was called with, it does not change
\* while the validation is pending whatever handleChange and setValue do to
\* Values, and every schema field passes on it.
C27_OnSubmitGetsValidatedValues ==
  /\ [](last.op = "onSubmit" => AllPass(last.vals))
  /\ [][\A p \in Slots :
          /\ (calls[p].kind = "idle" /\ calls'[p].kind = "handleSubmit")
               => calls'[p].vals = values
          /\ (calls[p].kind = "handleSubmit" /\ calls'[p].kind = "handleSubmit")
               => calls'[p].vals = calls[p].vals
          /\ (calls[p].kind = "handleSubmit" /\ calls[p].pc = "rule"
                /\ calls'[p].pc = "onSubmit")
               => /\ last'.op = "onSubmit" /\ last'.phase = "call"
                  /\ last'.vals = calls[p].vals]_vars

\* onSubmit has just been called with a valid value set while Values, changed
\* during the validation, holds an email that fails
C27_Witness ==
  /\ last.op = "onSubmit" /\ last.phase = "call"
  /\ last.vals # values
  /\ ~AllPass(values)

\* the step in which invocation p, its validation done, calls onSubmit
CallsOnSubmit(p) ==
  /\ calls[p].kind = "handleSubmit" /\ calls[p].pc = "rule"
  /\ calls'[p].pc = "onSubmit"

\* C28 as stated: whenever onSubmit is invoked, Errors holds no non-empty
\* entry for any schema field.
C28_NoErrorEntryAtOnSubmit ==
  (last.op = "onSubmit" /\ last.phase = "call")
    => \A f \in DOMAIN validationSchema : ~HasErrorEntry(errors, f)

\* C28, amended: when onSubmit is invoked, this submission's validation has
\* found no failing field on its value set and has therefore written nothing:
\* Errors is what it was before, entries left by setError, initialErrors or an
\* earlier failed validation included.
C28_OnSubmitAfterCleanRunKeepsEntries ==
  [][\A p \in Slots :
       CallsOnSubmit(p) =>
         /\ Visited(calls[p]).newErrors = NoErrors
         /\ AllPass(calls[p].vals)
         /\ errors' = errors]_vars

\* onSubmit has just been called and Errors still holds an entry for email
C28_Witness ==
  /\ last.op = "onSubmit" /\ last.phase = "call"
  /\ HasErrorEntry(errors, "email")

\* a step of an invocation that was already in flight
Settles == \E p \in Slots : calls[p].kind # "idle" /\ calls'[p] # calls[p]

\* C29 as stated: when reset() is the latest operation invoked, the state stays
\* the initial snapshot, also across the steps of an asynchronous validation
\* or a submission that was started before the reset.
C29_StateStaysResetWhileEarlierWorkSettles ==
  [][(last.op = "reset" /\ Settles)
       => /\ values' = initialValues
          /\ errors' = initialErrors
          /\ touched' = initialTouched
          /\ ~isSubmitting']_vars

\* the step is the invocation of `op` (on `name`, when it takes one)
Invokes(op, name) ==
  /\ last'.op = op /\ last'.name = name
  /\ last'.phase = "call" \/ calls' = calls

\* C30: Touched[f] goes from true to not true only in a step that invokes
\* clearField(f) or reset(), and from not true to true only in a step that
\* invokes handleBlur(f) or reset() (which restores initialTouched); so no step
\* of handleChange, setValue, setError, clearErrors, validateField, validate,
\* validateFields or a submission, call or completion, changes Touched.
C30_TouchedMonotonicBetweenResets ==
  [][/\ \A f \in Fields :
          /\ (IsTouched(touched, f) /\ ~IsTouched(touched', f))
               => Invokes("clearField", f) \/ Invokes("reset", "")
          /\ (~IsTouched(touched, f) /\ IsTouched(touched', f))
               => Invokes("handleBlur", f) \/ Invokes("reset", "")
     /\ touched' # touched
          => last'.op \in {"handleBlur", "clearField", "reset"}]_vars

\* confirmEmail, touched by a blur and not by initialTouched, is still touched
\* after that blur's validation, a change of email and clearErrors
C30_Witness ==
  /\ ~Has(initialTouched, "confirmEmail")
  /\ IsTouched(touched, "confirmEmail")
  /\ Get(values, "email") # Get(initialValues, "email")
  /\ last.op = "clearErrors"

=============================================================================
